---- MODULE Spec2Model ----
(***************************************************************************)
(* arr-llm-release-picker: the Download Decision Override webhooks          *)
(* (app/routes.py), the model client (app/llm.py), prompt resolution and    *)
(* release rendering (app/prompts.py), the tag and quality-profile lookups  *)
(* (app/radarr.py, app/sonarr.py), the notifier (app/notifications.py) and  *)
(* the configuration singleton (app/config.py).                             *)
(*                                                                          *)
(* Text is modelled in two ways.  Names that the code lower-cases or strips *)
(* (tag labels, profile names, prompt directory names) are sequences of     *)
(* characters.  Messages (reasons, error details) are sequences of words,   *)
(* so that formatting, prefix tests and the substring test of routes.py     *)
(* are computed.                                                            *)
(*                                                                          *)
(* Spec is the webhooks against the prompt table loaded at start-up.        *)
(* SpecReload is the same handlers, over fewer requests, with POST /reload  *)
(* (app/config.py reload_prompts) and edits of the prompt directories       *)
(* interleaved at every step.                                               *)
(***************************************************************************)
EXTENDS Integers, Sequences, FiniteSets, TLC

\* Longest release list a payload carries.
MaxReleases == 2

----------------------------------------------------------------------------
\* Python text operations

LowerChar(c) ==
  CASE c = "N" -> "n"
    [] c = "O" -> "o"
    [] c = "A" -> "a"
    [] c = "I" -> "i"
    [] c = "H" -> "h"
    [] c = "D" -> "d"
    [] c = "S" -> "s"
    [] OTHER -> c

\* str.lower()
Lower(s) == [i \in 1..Len(s) |-> LowerChar(s[i])]

RECURSIVE LStrip(_)
LStrip(s) == IF s # <<>> /\ Head(s) = " " THEN LStrip(Tail(s)) ELSE s

RECURSIVE RStrip(_)
RStrip(s) ==
  IF s # <<>> /\ s[Len(s)] = " " THEN RStrip(SubSeq(s, 1, Len(s) - 1)) ELSE s

\* str.strip()
Strip(s) == RStrip(LStrip(s))

\* needle in hay, for str
Contains(needle, hay) ==
  \E i \in 1..(Len(hay) - Len(needle) + 1) :
    SubSeq(hay, i, i + Len(needle) - 1) = needle

\* str.startswith
StartsWith(s, prefix) ==
  Len(prefix) <= Len(s) /\ SubSeq(s, 1, Len(prefix)) = prefix

\* x in list
InList(x, list) == \E i \in DOMAIN list : list[i] = x

\* A key that a dict does not hold (dict.get returns None or its default).
Absent == "<absent>"

----------------------------------------------------------------------------
\* Configuration (app/config.py)

Services == {"radarr", "sonarr"}

\* SKIP_TAG as set in the environment.
SkipTagEnv == <<"N", "o", "-", "A", "I">>

DefaultSkipTag == <<"n", "o", "-", "a", "i">>

\* skip_tag = os.environ.get('SKIP_TAG', '').strip() or 'no-ai'; Config(skip_tag=skip_tag.lower())
LoadSkipTag(env) ==
  Lower(IF Strip(env) = <<>> THEN DefaultSkipTag ELSE Strip(env))

\* The prompt directories on disk: prompts/SERVICE/PROFILE/system.txt
ProfileHD == <<"H", "D">>
ProfileDefault == <<"default">>
ProfileUnknown == <<"unknown">>

PromptDirs ==
  { [service |-> "radarr", profile |-> ProfileHD, text |-> "prompt-radarr-hd"],
    [service |-> "radarr", profile |-> ProfileDefault, text |-> "prompt-radarr-default"],
    [service |-> "sonarr", profile |-> ProfileHD, text |-> "prompt-sonarr-hd"] }

\* The directories after an operator has edited them: the radarr HD prompt is
\* rewritten, the radarr default prompt is removed, a sonarr SD prompt is added.
PromptDirsEdited ==
  { [service |-> "radarr", profile |-> ProfileHD, text |-> "prompt-radarr-hd-v2"],
    [service |-> "sonarr", profile |-> ProfileHD, text |-> "prompt-sonarr-hd"],
    [service |-> "sonarr", profile |-> <<"S", "D">>, text |-> "prompt-sonarr-sd"] }

DiskStates == {PromptDirs, PromptDirsEdited}

\* service_prompts = {'radarr': {}, 'sonarr': {}}
NoTable == [s \in Services |-> [k \in {} |-> ""]]

\* service_prompts[service][profile.lower()] = system_prompt
LoadPrompts(dirs) ==
  [s \in Services |->
    LET mine == {d \in dirs : d.service = s}
        keys == {Lower(d.profile) : d \in mine}
    IN [k \in keys |-> (CHOOSE d \in mine : Lower(d.profile) = k).text]]

\* load_config()
LoadConfig(radarrSet, sonarrSet, dryRun, ntfySet, dirs) ==
  [radarr |-> radarrSet,
   sonarr |-> sonarrSet,
   dry_run |-> dryRun,
   ntfy_url |-> ntfySet,
   skip_tag |-> LoadSkipTag(SkipTagEnv),
   service_prompts |-> LoadPrompts(dirs)]

\* The environments the process is started in: DRY_RUN and NTFY_URL each set
\* or not with both services configured, and one with Radarr alone (at least
\* one service is configured, or load_config raises).
Configs ==
  { LoadConfig(TRUE, TRUE, d, n, PromptDirs) : d \in BOOLEAN, n \in BOOLEAN }
  \cup { LoadConfig(TRUE, FALSE, FALSE, FALSE, PromptDirs) }

ServiceConfigured(cfg, svc) == IF svc = "radarr" THEN cfg.radarr ELSE cfg.sonarr

----------------------------------------------------------------------------
\* Webhook payloads (request.json)

Guids == {"a", "b"}

\* The title a release with this guid carries; the release "b" has no title key.
TitleOf(g) == IF g = "a" THEN "Title.A.1080p" ELSE Absent

\* A release of the payload.  size is the JSON type of its 'size' value.
WellTypedReleases ==
  { [guid |-> g, title |-> TitleOf(g), isSelected |-> sel, size |-> "number"] :
      g \in Guids, sel \in BOOLEAN }

BadlyTypedRelease ==
  [guid |-> "a", title |-> TitleOf("a"), isSelected |-> FALSE, size |-> "string"]

Releases == WellTypedReleases \cup {BadlyTypedRelease}

ReleaseLists == UNION { [1..n -> Releases] : n \in 0..MaxReleases }

\* payload.get('movie', {}) / payload.get('series', {}): the media object,
\* with or without an 'id'.
Medias ==
  { [has_id |-> FALSE, id |-> 0],
    [has_id |-> TRUE, id |-> 0],
    [has_id |-> TRUE, id |-> 7] }

DDO == "DownloadDecisionOverride"

\* if not payload:
EmptyPayload ==
  [empty |-> TRUE, eventType |-> "", media |-> [has_id |-> FALSE, id |-> 0],
   releases |-> <<>>]

DDOPayloads ==
  { [empty |-> FALSE, eventType |-> DDO, media |-> m, releases |-> rs] :
      m \in Medias, rs \in ReleaseLists }

OtherPayloads ==
  { [empty |-> FALSE, eventType |-> "Test", media |-> m, releases |-> rs] :
      m \in {[has_id |-> TRUE, id |-> 7]},
      rs \in {rs \in ReleaseLists : Len(rs) <= 1} }

Payloads == {EmptyPayload} \cup OtherPayloads \cup DDOPayloads

\* Mutant: only a missing list counts as no releases (if releases is None).
HasNoReleases_NoneOnly(releases) == FALSE

\* if not releases:
HasNoReleases(releases) == Len(releases) = 0

\* if movie_id:
Truthy(media) == media.has_id /\ media.id # 0

----------------------------------------------------------------------------
\* Tag lookup (app/radarr.py get_movie_tags, app/sonarr.py get_series_tags)

\* The manager's tag table (GET tag): id -> label.
AllTags ==
  { [id |-> 1, label |-> <<"N", "O", "-", "a", "i">>],
    [id |-> 2, label |-> <<"n", "o", "-", "a", "i", "-", "x">>],
    [id |-> 3, label |-> <<"a", "i">>] }

\* What the two GETs of the lookup give: an error, or the media item's tag ids.
NoLookup == [kind |-> "none", tag_ids |-> <<>>]

TagApiResults ==
  { [kind |-> "error", tag_ids |-> <<>>] } \cup
  { [kind |-> "ok", tag_ids |-> ids] :
      ids \in { <<>>, <<1>>, <<3, 1>>, <<4, 2, 3>> } }

\* tag_map = {t['id']: t['label'].lower() for t in all_tags}
TagMap == { [id |-> t.id, label |-> Lower(t.label)] : t \in AllTags }

TagMapHas(tid) == \E t \in TagMap : t.id = tid

TagMapGet(tid) == (CHOOSE t \in TagMap : t.id = tid).label

RECURSIVE ResolveTagIds(_)
\* [tag_map[tid] for tid in tag_ids if tid in tag_map]
ResolveTagIds(ids) ==
  IF ids = <<>> THEN <<>>
  ELSE IF TagMapHas(Head(ids))
       THEN <<TagMapGet(Head(ids))>> \o ResolveTagIds(Tail(ids))
       ELSE ResolveTagIds(Tail(ids))

\* get_movie_tags(movie_id): the lower-cased tag names, [] on any failure
GetMediaTags(api) ==
  IF api.kind # "ok" THEN <<>>
  ELSE IF api.tag_ids = <<>> THEN <<>>
  ELSE ResolveTagIds(api.tag_ids)

\* Mutant: the skip tag is looked for inside each tag name (substring match).
SkipTagInTags_Substring(skip_tag, tags) ==
  \E i \in DOMAIN tags : Contains(skip_tag, tags[i])

\* if cfg.skip_tag in tags:
SkipTagInTags(skip_tag, tags) == InList(skip_tag, tags)

----------------------------------------------------------------------------
\* Quality-profile lookup (get_quality_profile_name)

NoProfileLookup == [kind |-> "none", name |-> <<>>]

\* The lookup fails, finds no profile with the item's id, or finds its name.
ProfileApiResults ==
  { [kind |-> "error", name |-> <<>>],
    [kind |-> "notfound", name |-> <<>>],
    [kind |-> "ok", name |-> ProfileHD],
    [kind |-> "ok", name |-> <<"h", "d", " ">>],
    [kind |-> "ok", name |-> <<"S", "D">>] }

\* get_quality_profile_name(movie_id): the name, 'default' when the lookup fails
GetQualityProfileName(api) ==
  IF api.kind = "ok" THEN api.name ELSE ProfileDefault

----------------------------------------------------------------------------
\* Prompt resolution and release rendering (app/prompts.py)

\* Mutant: a profile without an entry falls back to the service's 'default'
\* entry.
GetSystemPromptForProfile_DefaultFallback(service_prompts, svc, profile) ==
  LET table == service_prompts[svc]
      normalized_profile == Strip(Lower(profile))
  IN IF normalized_profile \in DOMAIN table THEN table[normalized_profile]
     ELSE IF ProfileDefault \in DOMAIN table THEN table[ProfileDefault]
     ELSE Absent

\* get_system_prompt_for_profile(service, profile_name); Absent for None
GetSystemPromptForProfile(service_prompts, svc, profile) ==
  LET normalized_service == svc  \* the callers pass the literals 'radarr', 'sonarr'
      normalized_profile == Strip(Lower(profile))
      table == IF normalized_service \in DOMAIN service_prompts
               THEN service_prompts[normalized_service]
               ELSE << >>
  IN IF normalized_profile \in DOMAIN table
     THEN table[normalized_profile]
     ELSE Absent

\* selected.get('title', 'Unknown')
GetTitle(r) == IF r.title = Absent THEN "Unknown" ELSE r.title

\* r.get('size', 0) / (1024 ** 3) raises TypeError unless size is a number
SizeDivides(r) == r.size = "number"

\* Mutant: the items are numbered from 0 (enumerate(releases)).
FormatReleasesForAi_ZeroBased(releases) ==
  [ok |-> \A i \in DOMAIN releases : SizeDivides(releases[i]),
   items |-> [i \in DOMAIN releases |->
               [num |-> i - 1,
                title |-> GetTitle(releases[i]),
                preferred |-> releases[i].isSelected]]]

\* format_releases_for_ai(releases, title): one numbered item per release in
\* payload order; ok is FALSE when rendering raises.
FormatReleasesForAi(releases) ==
  [ok |-> \A i \in DOMAIN releases : SizeDivides(releases[i]),
   items |-> [i \in DOMAIN releases |->
               [num |-> i,
                title |-> GetTitle(releases[i]),
                preferred |-> releases[i].isSelected]]]

----------------------------------------------------------------------------
\* Model client (app/llm.py ask_ai_for_selection)

BypassReason == <<"AI", "bypassed", "-", "no", "prompt", "for", "this", "profile">>

GivenReason == <<"better", "seeders">>

NoReasonProvided == <<"No", "reason", "provided">>

\* The value under 'choice' in the model's JSON object, by JSON type.
\* A JSON true is Python's True, which counts as the integer 1.
ChoiceInts == (0 - 1)..(MaxReleases + 1)

ChoiceValues ==
  { [t |-> "missing", v |-> 0],
    [t |-> "null", v |-> 0],
    [t |-> "str", v |-> 2],
    [t |-> "float", v |-> 2],
    [t |-> "bool", v |-> 1],
    [t |-> "bool", v |-> 0] } \cup
  { [t |-> "int", v |-> c] : c \in ChoiceInts }

\* JSON documents the model's message can hold.
JGarbage == [syntax |-> "invalid", type |-> "", choice |-> [t |-> "missing", v |-> 0], has_reason |-> FALSE, reason |-> <<>>]

JArray == [syntax |-> "valid", type |-> "array", choice |-> [t |-> "missing", v |-> 0], has_reason |-> FALSE, reason |-> <<>>]

JObject(cv, hasReason, r) ==
  [syntax |-> "valid", type |-> "object", choice |-> cv, has_reason |-> hasReason, reason |-> r]

\* Lines of the message content: a ``` fence line, or a line of JSON text.
FenceLine == [fence |-> TRUE, doc |-> JGarbage]

TextLine(doc) == [fence |-> FALSE, doc |-> doc]

\* What the POST to /chat/completions gives.
NoResponse == [kind |-> "none", detail |-> <<>>, content |-> <<>>]

TransportFailures ==
  { [kind |-> "transport", detail |-> d, content |-> <<>>] :
      d \in { <<"Read", "timed", "out">>,
              <<"503", "Server", "Error:", "AI", "bypassed", "for", "url">> } }

MissingChoices == [kind |-> "no_choices", detail |-> <<>>, content |-> <<>>]

ContentResponses ==
  { [kind |-> "content", detail |-> <<>>, content |-> c] :
      c \in { <<TextLine(JGarbage)>>, <<TextLine(JArray)>>,
              <<TextLine(JObject([t |-> "int", v |-> 2], FALSE, <<>>))>>,
              <<TextLine(JObject([t |-> "int", v |-> 1], TRUE, BypassReason))>>,
              <<FenceLine, TextLine(JObject([t |-> "int", v |-> 1], TRUE, GivenReason)), FenceLine>> }
            \cup { <<TextLine(JObject(cv, TRUE, GivenReason))>> : cv \in ChoiceValues } }

LlmResponses == TransportFailures \cup {MissingChoices} \cup ContentResponses

RECURSIVE InBlockLines(_, _)
\* the loop of llm.py lines 90-97: the lines between the first and second fence
InBlockLines(lines, in_block) ==
  IF lines = <<>> THEN <<>>
  ELSE IF Head(lines).fence /\ ~in_block THEN InBlockLines(Tail(lines), TRUE)
  ELSE IF Head(lines).fence /\ in_block THEN <<>>
  ELSE IF in_block THEN <<Head(lines)>> \o InBlockLines(Tail(lines), in_block)
  ELSE InBlockLines(Tail(lines), in_block)

\* if content.startswith('```'): keep the fenced block
StripFence(lines) ==
  IF lines # <<>> /\ Head(lines).fence THEN InBlockLines(lines, FALSE) ELSE lines

\* json.loads(content) succeeds on exactly one valid document
JsonLoads(lines) ==
  IF Len(lines) = 1 /\ ~lines[1].fence /\ lines[1].doc.syntax = "valid"
  THEN [ok |-> TRUE, doc |-> lines[1].doc]
  ELSE [ok |-> FALSE, doc |-> JGarbage]

\* The first element of ask_ai_for_selection's result: None, or an int.
NoChoice == [t |-> "none", v |-> 0]

\* isinstance(choice, int): bool is a subclass of int
IsInstanceInt(cv) == cv.t \in {"int", "bool"}

\* type(choice) in the message of llm.py line 105
TypeName(cv) ==
  CASE cv.t \in {"missing", "null"} -> "<class 'NoneType'>"
    [] cv.t = "str" -> "<class 'str'>"
    [] cv.t = "float" -> "<class 'float'>"
    [] cv.t = "bool" -> "<class 'bool'>"
    [] OTHER -> "<class 'int'>"

\* llm.py lines 80-115: the (choice, reason) made of the endpoint's response
ParseAnswer(resp) ==
  IF resp.kind = "transport"
  THEN [choice |-> NoChoice, reason |-> resp.detail]
  ELSE IF resp.kind = "no_choices"
  THEN [choice |-> NoChoice, reason |-> <<"'choices'">>]
  ELSE LET parsed == JsonLoads(StripFence(resp.content))
       IN IF ~parsed.ok
          THEN [choice |-> NoChoice,
                reason |-> <<"Invalid", "JSON", "response:", "Expecting", "value">>]
          ELSE IF parsed.doc.type # "object"
          THEN [choice |-> NoChoice,
                reason |-> <<"'list'", "object", "has", "no", "attribute", "'get'">>]
          ELSE LET choice == parsed.doc.choice
                   reason == IF parsed.doc.has_reason THEN parsed.doc.reason
                             ELSE NoReasonProvided
               IN IF ~IsInstanceInt(choice)
                  THEN [choice |-> NoChoice,
                        reason |-> <<"Invalid", "choice", "type:", TypeName(choice)>>]
                  ELSE [choice |-> choice, reason |-> reason]

----------------------------------------------------------------------------
\* Notifier (app/notifications.py send_notification)

PriorityMap(priority) ==
  CASE priority = "low" -> 1
    [] priority = "default" -> 3
    [] priority = "high" -> 5
    [] OTHER -> 3

\* The POSTs send_notification makes for the intents it is called with:
\* none when ntfy_url is unset; a failed POST is logged and swallowed.
SendNotification(cfg, intents, delivered) ==
  IF ~cfg.ntfy_url THEN <<>>
  ELSE [i \in DOMAIN intents |->
         [title |-> intents[i].title,
          priority |-> PriorityMap(intents[i].priority),
          tags |-> intents[i].tags,
          delivered |-> delivered]]

\* Mutant: a failed POST is not caught and leaves send_notification.
NotifierRaises_Propagates(cfg, intents, delivered) ==
  cfg.ntfy_url /\ intents # <<>> /\ ~delivered

\* except Exception as e: logger.error(...) -- whether an exception leaves
\* send_notification for the handler that called it
NotifierRaises(cfg, intents, delivered) == FALSE

----------------------------------------------------------------------------
\* The webhook handlers (app/routes.py webhook_radarr_override,
\* webhook_sonarr_override): the two differ in names only.

NoResponseYet == [status |-> 0, approved |-> FALSE, reason |-> <<>>, selectedReleaseGuid |-> Absent]

\* jsonify({'approved': True, 'reason': reason}), 200
Approve(reason) ==
  [status |-> 200, approved |-> TRUE, reason |-> reason, selectedReleaseGuid |-> Absent]

\* jsonify({'approved': True, 'selectedReleaseGuid': guid, 'reason': reason}), 200
ApproveWith(guid, reason) ==
  [status |-> 200, approved |-> TRUE, reason |-> reason, selectedReleaseGuid |-> guid]

\* An exception that leaves the view function: Flask answers 500.
ServerError ==
  [status |-> 500, approved |-> FALSE, reason |-> <<>>, selectedReleaseGuid |-> Absent]

ServiceTitle(svc) == IF svc = "radarr" THEN "Radarr" ELSE "Sonarr"

\* if choice is None and "AI bypassed" in reason:
IsBypass(choice, reason) ==
  choice.t = "none" /\ Contains(<<"AI", "bypassed">>, reason)

\* Mutant: the lower bound of the range check is 0 instead of 1.
IsInvalidChoice_ZeroAllowed(choice, n) ==
  choice.t = "none" \/ choice.v < 0 \/ choice.v > n

\* if choice is None or choice < 1 or choice > len(releases):
IsInvalidChoice(choice, n) ==
  choice.t = "none" \/ choice.v < 1 \/ choice.v > n

\* list[i] of Python: a negative i counts from the end
PyIndexInRange(list, i) == (0 - Len(list)) <= i /\ i < Len(list)

PyGetItem(list, i) == IF i >= 0 THEN list[i + 1] ELSE list[Len(list) + i + 1]

\* Mutant: the subscript is off by one (releases[choice - 2]).
SelectedRelease_OffByOne(releases, choice) == PyGetItem(releases, choice.v - 2)

\* selected = releases[choice - 1]
SelectedRelease(releases, choice) == PyGetItem(releases, choice.v - 1)

\* Mutant: the last flagged release is taken instead of the first.
DefaultSelected_Last(releases) ==
  LET flagged == {i \in DOMAIN releases : releases[i].isSelected}
  IN IF flagged = {} THEN <<>>
     ELSE <<releases[CHOOSE i \in flagged : \A j \in flagged : i >= j]>>

\* next((r for r in releases if r.get('isSelected')), None), as a list of
\* at most one release
DefaultSelected(releases) ==
  LET flagged == {i \in DOMAIN releases : releases[i].isSelected}
  IN IF flagged = {} THEN <<>>
     ELSE <<releases[CHOOSE i \in flagged : \A j \in flagged : i <= j]>>

\* Mutant: any flagged default counts as confirmed (the guid comparison is lost).
IsSameAsDefault_AnyDefault(default_selected, selected_guid) ==
  default_selected # <<>>

\* Mutant: a payload without a flagged release counts as confirmed.
IsSameAsDefault_NoDefaultConfirms(default_selected, selected_guid) ==
  default_selected = <<>> \/ default_selected[1].guid = selected_guid

\* default_selected and default_selected.get('guid') == selected_guid
IsSameAsDefault(default_selected, selected_guid) ==
  default_selected # <<>> /\ default_selected[1].guid = selected_guid

\* Mutant: the failure branch announces an override.
FailureIntent_AsOverride(svc) ==
  [title |-> "AI Override", priority |-> "default",
   tags |-> IF svc = "radarr" THEN <<"movie_camera">> ELSE <<"tv">>]

\* send_notification(f"AI Warning: {title}", ..., priority="low", tags=["warning"])
FailureIntent(svc) ==
  [title |-> "AI Warning", priority |-> "low", tags |-> <<"warning">>]

\* Mutant: the override branch sends the failure warning.
OverrideIntent_AsWarning(svc) ==
  [title |-> "AI Warning", priority |-> "low", tags |-> <<"warning">>]

\* send_notification(title=f"AI Override: {title}", ..., tags=[...])
OverrideIntent(svc) ==
  [title |-> "AI Override", priority |-> "default",
   tags |-> IF svc = "radarr" THEN <<"movie_camera">> ELSE <<"tv">>]

\* Mutant: the dry-run flag is not consulted.
IsDryRun_Never(cfg) == FALSE

\* Mutant: every configuration is treated as a dry run.
IsDryRun_Always(cfg) == TRUE

\* if cfg.dry_run:
IsDryRun(cfg) == cfg.dry_run

\* The handler from the return of ask_ai_for_selection to its own return
\* (routes.py lines 165-228 and 376-439): the return statement taken, the
\* response, the notifications asked for and the indexes read of releases.
Decide(cfg, svc, releases, choice, reason) ==
  IF IsBypass(choice, reason)
  THEN [outcome |-> "NoPromptForProfile", response |-> Approve(reason),
        intents |-> <<>>, read |-> <<>>]
  ELSE IF IsInvalidChoice(choice, Len(releases))
  THEN [outcome |-> "ModelInvocationFailed",
        response |-> Approve(<<"AI", "failed:">> \o reason \o <<",", "using", "default">>),
        intents |-> <<FailureIntent(svc)>>, read |-> <<>>]
  ELSE IF ~PyIndexInRange(releases, choice.v - 1)
  THEN [outcome |-> "UnhandledError", response |-> ServerError,
        intents |-> <<>>, read |-> <<choice.v - 1>>]
  ELSE LET selected == SelectedRelease(releases, choice)
           selected_guid == selected.guid
           selected_title == GetTitle(selected)
           default_selected == DefaultSelected(releases)
       IN IF ~SizeDivides(selected)
          THEN [outcome |-> "UnhandledError", response |-> ServerError,
                intents |-> <<>>, read |-> <<choice.v - 1>>]
          ELSE IF IsSameAsDefault(default_selected, selected_guid)
          THEN [outcome |-> "ConfirmsDefault",
                response |-> Approve(<<"AI", "confirms", "default:">> \o reason),
                intents |-> <<>>, read |-> <<choice.v - 1>>]
          ELSE IF IsDryRun(cfg)
          THEN [outcome |-> "Override",
                response |-> Approve(<<"[DRY RUN]", "Would", "select:", selected_title>>),
                intents |-> <<>>, read |-> <<choice.v - 1>>]
          ELSE [outcome |-> "Override",
                response |-> ApproveWith(selected_guid, reason),
                intents |-> <<OverrideIntent(svc)>>, read |-> <<choice.v - 1>>]

----------------------------------------------------------------------------
\* State

VARIABLES
  config,         \* the _config singleton of app/config.py
  pc,             \* where the webhook in flight stands
  service,        \* the hook called: "radarr" or "sonarr"
  payload,        \* request.json
  tag_api,        \* what the tag lookup's GETs gave
  tags,           \* get_movie_tags / get_series_tags result
  profile_api,    \* what the profile lookup's GETs gave
  profile_name,   \* the quality-profile name the handler uses
  llm_requests,   \* the requests POSTed to the model endpoint
  llm_response,   \* what the model endpoint gave
  choice,         \* ask_ai_for_selection()[0]
  reason,         \* ask_ai_for_selection()[1]
  read_index,     \* the indexes at which releases was subscripted
  notifications,  \* the calls of send_notification
  ntfy_posts,     \* the POSTs made by send_notification
  outcome,        \* the return statement the handler took
  response,       \* the HTTP response of the webhook
  system_prompt,  \* get_system_prompt_for_profile's result in ask_ai_for_selection
  table_at_start, \* history: _config.service_prompts when the handler began
  prompt_dirs,    \* the prompt directories on disk
  reload_pc,      \* where the POST /reload in flight stands
  reload_local    \* reload_prompts' local service_prompts, under construction

reloadVars == << prompt_dirs, reload_pc, reload_local >>

vars ==
  << config, pc, service, payload, tag_api, tags, profile_api, profile_name,
     llm_requests, llm_response, choice, reason, read_index, notifications,
     ntfy_posts, outcome, response, system_prompt, table_at_start,
     prompt_dirs, reload_pc, reload_local >>

\* system_prompt before ask_ai_for_selection has resolved it
Unresolved == "<unresolved>"

\* No webhook in flight.
Idle ==
  /\ pc = "idle"
  /\ service = "radarr"
  /\ payload = EmptyPayload
  /\ tag_api = NoLookup
  /\ tags = <<>>
  /\ profile_api = NoProfileLookup
  /\ profile_name = <<>>
  /\ llm_requests = <<>>
  /\ llm_response = NoResponse
  /\ choice = NoChoice
  /\ reason = <<>>
  /\ read_index = <<>>
  /\ notifications = <<>>
  /\ ntfy_posts = <<>>
  /\ outcome = "none"
  /\ response = NoResponseYet
  /\ system_prompt = Unresolved
  /\ table_at_start = NoTable

\* No reload in flight; the disk holds the directories read at start-up.
ReloadIdle ==
  /\ prompt_dirs = PromptDirs
  /\ reload_pc = "idle"
  /\ reload_local = NoTable

Init ==
  /\ config \in Configs
  /\ Idle
  /\ ReloadIdle

\* return jsonify(...), 200 -- or an exception leaving the handler
Return(o, resp) ==
  /\ pc' = "done"
  /\ outcome' = o
  /\ response' = resp

\* routes.py lines 119-122: the service is not configured
NotConfigured(svc) ==
  /\ pc = "idle"
  /\ ~ServiceConfigured(config, svc)
  /\ service' = svc
  /\ table_at_start' = config.service_prompts
  /\ Return("NotConfigured", Approve(<<ServiceTitle(svc), "not", "configured">>))
  /\ UNCHANGED << config, payload, tag_api, tags, profile_api, profile_name,
                  llm_requests, llm_response, choice, reason, read_index,
                  notifications, ntfy_posts, system_prompt >>
  /\ UNCHANGED reloadVars

\* routes.py lines 119-160: from the request to the first lookup
Receive(svc, p) ==
  /\ pc = "idle"
  /\ ServiceConfigured(config, svc)
  /\ service' = svc
  /\ payload' = p
  /\ table_at_start' = config.service_prompts
  /\ IF p.empty
     THEN Return("EmptyPayload", Approve(<<"Empty", "payload">>))
          /\ UNCHANGED profile_name
     ELSE IF p.eventType # DDO
     THEN Return("IgnoredEvent", Approve(<<"Ignored", "event", "type:", p.eventType>>))
          /\ UNCHANGED profile_name
     ELSE IF HasNoReleases(p.releases)
     THEN Return("NoReleases", Approve(<<"No", "releases", "to", "evaluate">>))
          /\ UNCHANGED profile_name
     ELSE IF Truthy(p.media)
     THEN /\ pc' = "tags"
          /\ UNCHANGED << profile_name, outcome, response >>
     ELSE /\ pc' = "ask"
          /\ profile_name' = ProfileUnknown
          /\ UNCHANGED << outcome, response >>
  /\ UNCHANGED << config, tag_api, tags, profile_api, llm_requests,
                  llm_response, choice, reason, read_index, notifications,
                  ntfy_posts, system_prompt >>
  /\ UNCHANGED reloadVars

\* routes.py lines 150-157: the skip-tag check
TagLookup(api) ==
  /\ pc = "tags"
  /\ tag_api' = api
  /\ tags' = GetMediaTags(api)
  /\ IF SkipTagInTags(config.skip_tag, GetMediaTags(api))
     THEN Return("SkipTagged",
                 Approve(<<"Skipped:", "tag">> \o config.skip_tag \o <<"present">>))
     ELSE /\ pc' = "profile"
          /\ UNCHANGED << outcome, response >>
  /\ UNCHANGED << config, service, payload, profile_api, profile_name,
                  llm_requests, llm_response, choice, reason, read_index,
                  notifications, ntfy_posts, system_prompt, table_at_start >>
  /\ UNCHANGED reloadVars

\* routes.py line 160: profile_name = get_quality_profile_name(movie_id)
ProfileLookup(api) ==
  /\ pc = "profile"
  /\ profile_api' = api
  /\ profile_name' = GetQualityProfileName(api)
  /\ pc' = "ask"
  /\ UNCHANGED << config, service, payload, tag_api, tags, llm_requests,
                  llm_response, choice, reason, read_index, notifications,
                  ntfy_posts, outcome, response, system_prompt, table_at_start >>
  /\ UNCHANGED reloadVars

\* The end of the handler once ask_ai_for_selection has returned (c, r):
\* routes.py lines 165-228, with the notifier's POST.
Finish(c, r, delivered) ==
  LET d == Decide(config, service, payload.releases, c, r)
  IN /\ choice' = c
     /\ reason' = r
     /\ read_index' = d.read
     /\ notifications' = d.intents
     /\ ntfy_posts' = SendNotification(config, d.intents, delivered)
     /\ IF NotifierRaises(config, d.intents, delivered)
        THEN Return("UnhandledError", ServerError)
        ELSE Return(d.outcome, d.response)

\* routes.py line 163 with llm.py lines 43-79: resolve the prompt, render the
\* releases and send the request; without a prompt the call returns at once.
AskAI ==
  /\ pc = "ask"
  /\ LET resolved ==
           GetSystemPromptForProfile(config.service_prompts, service, profile_name)
         rendered == FormatReleasesForAi(payload.releases)
     IN /\ system_prompt' = resolved
        /\ IF resolved = Absent
           THEN /\ Finish(NoChoice, BypassReason, FALSE)
                /\ UNCHANGED llm_requests
           ELSE IF ~rendered.ok
           THEN /\ Return("UnhandledError", ServerError)
                /\ UNCHANGED << llm_requests, choice, reason, read_index,
                                notifications, ntfy_posts >>
           ELSE /\ llm_requests' =
                     Append(llm_requests,
                            [system |-> resolved, profile |-> profile_name,
                             body |-> rendered.items])
                /\ pc' = "llm"
                /\ UNCHANGED << choice, reason, read_index, notifications,
                                ntfy_posts, outcome, response >>
  /\ UNCHANGED << config, service, payload, tag_api, tags, profile_api,
                  profile_name, llm_response, table_at_start >>
  /\ UNCHANGED reloadVars

\* llm.py lines 80-115 and routes.py lines 165-228: the endpoint answers (or
\* the POST raises), the answer is parsed and the handler returns.
LlmReturn(resp, delivered) ==
  /\ pc = "llm"
  /\ llm_response' = resp
  /\ Finish(ParseAnswer(resp).choice, ParseAnswer(resp).reason, delivered)
  /\ UNCHANGED << config, service, payload, tag_api, tags, profile_api,
                  profile_name, llm_requests, system_prompt, table_at_start >>
  /\ UNCHANGED reloadVars

\* The response is sent; the next webhook starts from a clean request.
NextRequest ==
  /\ pc = "done"
  /\ pc' = "idle"
  /\ service' = "radarr"
  /\ payload' = EmptyPayload
  /\ tag_api' = NoLookup
  /\ tags' = <<>>
  /\ profile_api' = NoProfileLookup
  /\ profile_name' = <<>>
  /\ llm_requests' = <<>>
  /\ llm_response' = NoResponse
  /\ choice' = NoChoice
  /\ reason' = <<>>
  /\ read_index' = <<>>
  /\ notifications' = <<>>
  /\ ntfy_posts' = <<>>
  /\ outcome' = "none"
  /\ response' = NoResponseYet
  /\ system_prompt' = Unresolved
  /\ table_at_start' = NoTable
  /\ UNCHANGED config
  /\ UNCHANGED reloadVars

Next ==
  \/ \E svc \in Services : NotConfigured(svc)
  \/ \E svc \in Services, p \in Payloads : Receive(svc, p)
  \/ \E api \in TagApiResults : TagLookup(api)
  \/ \E api \in ProfileApiResults : ProfileLookup(api)
  \/ AskAI
  \/ \E resp \in LlmResponses, delivered \in BOOLEAN : LlmReturn(resp, delivered)
  \/ NextRequest

Spec == Init /\ [][Next]_vars

----------------------------------------------------------------------------
\* POST /reload (app/routes.py reload, app/config.py reload_prompts), run by
\* another thread of the server while a webhook is in flight.

webhookVars ==
  << pc, service, payload, tag_api, tags, profile_api, profile_name,
     llm_requests, llm_response, choice, reason, read_index, notifications,
     ntfy_posts, outcome, response, system_prompt, table_at_start >>

\* An operator edits the prompt directories on disk.
EditPrompts(dirs) ==
  /\ prompt_dirs # dirs
  /\ prompt_dirs' = dirs
  /\ UNCHANGED << config, reload_pc, reload_local >>
  /\ UNCHANGED webhookVars

\* config.py lines 284-292: service_prompts = {'radarr': {}, 'sonarr': {}}
ReloadBegin ==
  /\ reload_pc = "idle"
  /\ reload_local' = NoTable
  /\ reload_pc' = "radarr"
  /\ UNCHANGED << config, prompt_dirs >>
  /\ UNCHANGED webhookVars

\* config.py lines 294-305: one turn of 'for service in [radarr, sonarr]',
\* filling the local table from the directories of that service
ReloadScan ==
  /\ reload_pc \in Services
  /\ reload_local' =
       [reload_local EXCEPT ![reload_pc] = LoadPrompts(prompt_dirs)[reload_pc]]
  /\ reload_pc' = IF reload_pc = "radarr" THEN "sonarr" ELSE "publish"
  /\ UNCHANGED << config, prompt_dirs >>
  /\ UNCHANGED webhookVars

\* config.py line 308: _config.service_prompts = service_prompts
ReloadPublish ==
  /\ reload_pc = "publish"
  /\ config' = [config EXCEPT !.service_prompts = reload_local]
  /\ reload_pc' = "idle"
  /\ UNCHANGED << prompt_dirs, reload_local >>
  /\ UNCHANGED webhookVars

\* The requests, lookups and answers under which the reload is interleaved.
ReloadConfigs ==
  { LoadConfig(TRUE, s, FALSE, FALSE, PromptDirs) : s \in BOOLEAN }

ReloadPayloads ==
  { EmptyPayload } \cup
  { [empty |-> FALSE, eventType |-> DDO, media |-> m,
     releases |-> << [guid |-> "a", title |-> TitleOf("a"),
                      isSelected |-> FALSE, size |-> "number"] >>] :
      m \in { [has_id |-> FALSE, id |-> 0], [has_id |-> TRUE, id |-> 7] } }

ReloadTagApiResults ==
  { [kind |-> "error", tag_ids |-> <<>>], [kind |-> "ok", tag_ids |-> <<1>>] }

ReloadProfileApiResults ==
  { [kind |-> "error", name |-> <<>>],
    [kind |-> "ok", name |-> ProfileHD],
    [kind |-> "ok", name |-> <<"S", "D">>] }

ReloadLlmResponses ==
  { [kind |-> "transport", detail |-> <<"Read", "timed", "out">>, content |-> <<>>],
    [kind |-> "content", detail |-> <<>>,
     content |-> <<TextLine(JObject([t |-> "int", v |-> 1], TRUE, GivenReason))>>] }

InitReload ==
  /\ config \in ReloadConfigs
  /\ Idle
  /\ ReloadIdle

NextReload ==
  \/ \E svc \in Services : NotConfigured(svc)
  \/ \E svc \in Services, p \in ReloadPayloads : Receive(svc, p)
  \/ \E api \in ReloadTagApiResults : TagLookup(api)
  \/ \E api \in ReloadProfileApiResults : ProfileLookup(api)
  \/ AskAI
  \/ \E resp \in ReloadLlmResponses : LlmReturn(resp, TRUE)
  \/ NextRequest
  \/ \E dirs \in DiskStates : EditPrompts(dirs)
  \/ ReloadBegin
  \/ ReloadScan
  \/ ReloadPublish

\* The webhooks with POST /reload and edits of the prompt directories
\* interleaved at every step.
SpecReload == InitReload /\ [][NextReload]_vars

----------------------------------------------------------------------------
\* Properties

Done == pc = "done"

\* A DownloadDecisionOverride request to a configured service: the requests
\* for which the handler takes a decision.
IsDecision ==
  /\ Done
  /\ ServiceConfigured(config, service)
  /\ ~payload.empty
  /\ payload.eventType = DDO

\* ask_ai_for_selection returned an integer (in Python's sense) that is a
\* position of the release list.
ValidChoice ==
  /\ Done
  /\ choice.t # "none"
  /\ 1 <= choice.v
  /\ choice.v <= Len(payload.releases)

\* The model call was made and did not yield a JSON object: the POST raised
\* (network, timeout, HTTP status), the body lacks choices/message/content,
\* the content is not JSON, or the JSON is not an object.
CallFailed ==
  /\ Done
  /\ llm_requests # <<>>
  /\ \/ llm_response.kind \in {"transport", "no_choices"}
     \/ /\ llm_response.kind = "content"
        /\ LET parsed == JsonLoads(StripFence(llm_response.content))
           IN ~parsed.ok \/ parsed.doc.type # "object"

\* The model answered with a JSON object.
AnsweredObject ==
  /\ Done
  /\ llm_requests # <<>>
  /\ llm_response.kind = "content"
  /\ JsonLoads(StripFence(llm_response.content)).ok
  /\ JsonLoads(StripFence(llm_response.content)).doc.type = "object"

AnsweredChoice == JsonLoads(StripFence(llm_response.content)).doc.choice

Reorderings(n) ==
  { p \in [1..n -> 1..n] : \A i, j \in 1..n : i # j => p[i] # p[j] }

\* C1: a selectedReleaseGuid in the response is the guid of the release at the
\* model's validated 1-based choice k (1 <= k <= n) in the payload's order, so
\* it is a guid of the payload; and for every reordering of the releases with
\* k moved along, the release selected has that same guid and no other guid
\* is returned.
C1_SelectedGuidIsChosenRelease ==
  (Done /\ response.selectedReleaseGuid # Absent) =>
    LET rels == payload.releases
        n == Len(rels)
        k == choice.v
    IN /\ choice.t # "none"
       /\ 1 <= k /\ k <= n
       /\ response.selectedReleaseGuid = rels[k].guid
       /\ \E i \in 1..n : rels[i].guid = response.selectedReleaseGuid
       /\ \A p \in Reorderings(n) :
            LET moved == [i \in 1..n |-> rels[p[i]]]
                k2 == CHOOSE i \in 1..n : p[i] = k
                c2 == [t |-> choice.t, v |-> k2]
                d == Decide(config, service, moved, c2, reason)
            IN /\ SelectedRelease(moved, c2).guid = response.selectedReleaseGuid
               /\ d.response.selectedReleaseGuid
                    \in {Absent, response.selectedReleaseGuid}

\* C1 witness: an override that picks the second of two releases with
\* different guids.
C1_Witness ==
  /\ Done
  /\ Len(payload.releases) = 2
  /\ payload.releases[1].guid # payload.releases[2].guid
  /\ choice.v = 2
  /\ response.selectedReleaseGuid = payload.releases[2].guid

\* C2: every request to an override hook ends in HTTP 200 with approved = true.
C2_AlwaysApproved ==
  Done => (response.status = 200 /\ response.approved)

\* C3: a model call that fails by transport or by response format ends in
\* ModelInvocationFailed, with reason 'AI failed: <detail>, using default' and
\* no selectedReleaseGuid, never in NoPromptForProfile or another outcome.
C3_FailedCallIsModelInvocationFailed ==
  CallFailed =>
    /\ outcome = "ModelInvocationFailed"
    /\ response = Approve(<<"AI", "failed:">> \o reason \o <<",", "using", "default">>)

\* C4: an integer choice c < 1 or c > n for a list of n >= 1 releases ends in
\* ModelInvocationFailed: approved, no selectedReleaseGuid, a reason starting
\* with 'AI failed:', and the release list is not subscripted.
C4_OutOfRangeChoiceFails ==
  (Done /\ choice.t = "int" /\ Len(payload.releases) >= 1
        /\ (choice.v < 1 \/ choice.v > Len(payload.releases))) =>
    /\ outcome = "ModelInvocationFailed"
    /\ response.status = 200
    /\ response.approved
    /\ response.selectedReleaseGuid = Absent
    /\ StartsWith(response.reason, <<"AI", "failed:">>)
    /\ read_index = <<>>

\* C4 witness: the model answers 0, and it answers n + 1.
C4_Witness ==
  /\ Done
  /\ choice.t = "int"
  /\ choice.v = 0
  /\ Len(payload.releases) = 2
  /\ outcome = "ModelInvocationFailed"

C4_WitnessAbove ==
  /\ Done
  /\ choice.t = "int"
  /\ choice.v = Len(payload.releases) + 1
  /\ outcome = "ModelInvocationFailed"

\* C5: the model client returns an index only for a 'choice' of JSON integer
\* type; a missing, null, string, float or boolean 'choice' gives no index,
\* hence never ConfirmsDefault or Override.
C5_OnlyIntegerChoiceSelects ==
  (AnsweredObject /\ AnsweredChoice.t # "int") =>
    /\ choice = NoChoice
    /\ outcome \notin {"ConfirmsDefault", "Override"}

CarriedLabels ==
  IF tag_api.kind # "ok" THEN {}
  ELSE { t.label : t \in { t \in AllTags : InList(t.id, tag_api.tag_ids) } }

EqualIgnoringCase(a, b) == Lower(a) = Lower(b)

CarriesSkipTag == \E l \in CarriedLabels : EqualIgnoringCase(l, SkipTagEnv)

C7_WitnessNearMiss ==
  /\ IsDecision
  /\ \E l \in CarriedLabels : Contains(config.skip_tag, l)
  /\ \E l \in CarriedLabels : Contains(l, config.skip_tag)
  /\ outcome # "SkipTagged"

\* Prompt resolution for the request's profile returns no prompt
\* (profile_name is set once the handler has determined the profile).
NoPromptResolved ==
  GetSystemPromptForProfile(config.service_prompts, service, profile_name) = Absent

\* C8: without a prompt for the request's (service, profile) no model request
\* is sent, nothing is notified and the response is approved with the reason
\* 'AI bypassed - no prompt for this profile' and no selectedReleaseGuid; and
\* the handler ends this way only when prompt resolution returned absent.
C8_BypassIffNoPrompt ==
  /\ (IsDecision /\ profile_name # <<>> /\ NoPromptResolved) =>
       /\ outcome = "NoPromptForProfile"
       /\ response = Approve(BypassReason)
       /\ llm_requests = <<>>
       /\ notifications = <<>>
  /\ (Done /\ outcome = "NoPromptForProfile") =>
       /\ NoPromptResolved
       /\ llm_requests = <<>>
       /\ response = Approve(BypassReason)

\* The first release flagged isSelected, in payload order.
FirstFlagged(rels) ==
  CHOOSE i \in DOMAIN rels :
    rels[i].isSelected /\ \A j \in DOMAIN rels : j < i => ~rels[j].isSelected

SomeFlagged(rels) == \E i \in DOMAIN rels : rels[i].isSelected

SeveralFlagged(rels) ==
  \E i, j \in DOMAIN rels : i # j /\ rels[i].isSelected /\ rels[j].isSelected

IsConfirmsDefault ==
  /\ outcome = "ConfirmsDefault"
  /\ response = Approve(<<"AI", "confirms", "default:">> \o reason)
  /\ notifications = <<>>
  /\ ntfy_posts = <<>>

\* C9 as stated: an in-range choice of any release flagged isSelected ends in
\* ConfirmsDefault (reason 'AI confirms default: <reason>', no
\* selectedReleaseGuid, no notification), also when several are flagged.
C9_FlaggedChoiceConfirms ==
  (ValidChoice /\ payload.releases[choice.v].isSelected) => IsConfirmsDefault

\* C9 amended: an in-range choice of a release whose guid is that of the
\* first release flagged isSelected ends in ConfirmsDefault (reason 'AI
\* confirms default: <reason>', no selectedReleaseGuid, no notification),
\* also when several are flagged.
C9_FirstFlaggedChoiceConfirms ==
  (ValidChoice /\ SomeFlagged(payload.releases)
     /\ payload.releases[choice.v].guid
          = payload.releases[FirstFlagged(payload.releases)].guid)
    => IsConfirmsDefault

\* C9 witness: two releases flagged, the model chooses the first.
C9_Witness ==
  /\ ValidChoice
  /\ SeveralFlagged(payload.releases)
  /\ choice.v = FirstFlagged(payload.releases)
  /\ payload.releases[1].guid # payload.releases[2].guid
  /\ outcome = "ConfirmsDefault"

\* C10: with releases flagged isSelected, several included, the first flagged
\* in payload order is the default: the outcome is ConfirmsDefault exactly
\* when the chosen release's guid is the first flagged release's guid, and
\* Override otherwise.
C10_FirstFlaggedIsTheDefault ==
  (ValidChoice /\ SomeFlagged(payload.releases)) =>
    LET same == payload.releases[choice.v].guid
                  = payload.releases[FirstFlagged(payload.releases)].guid
    IN /\ same <=> outcome = "ConfirmsDefault"
       /\ ~same <=> outcome = "Override"

\* C10 witness: two releases flagged, the model chooses the second, whose
\* guid differs, and overrides.
C10_Witness ==
  /\ ValidChoice
  /\ SeveralFlagged(payload.releases)
  /\ choice.v # FirstFlagged(payload.releases)
  /\ payload.releases[choice.v].isSelected
  /\ outcome = "Override"

\* The release the model chose is the manager's default: its guid is the
\* guid of the first release flagged isSelected.
ChoosesDefault ==
  /\ SomeFlagged(payload.releases)
  /\ payload.releases[choice.v].guid
       = payload.releases[FirstFlagged(payload.releases)].guid

\* C11: when no release of the payload is flagged isSelected, every in-range
\* choice ends in Override (with dry-run off: selectedReleaseGuid is the chosen
\* release's guid and the reason is the model's reason), and ConfirmsDefault
\* is never the outcome of such a payload.
C11_NoDefaultMeansOverride ==
  /\ (ValidChoice /\ ~SomeFlagged(payload.releases)) =>
       /\ outcome = "Override"
       /\ ~config.dry_run =>
            response = ApproveWith(payload.releases[choice.v].guid, reason)
  /\ (IsDecision /\ ~SomeFlagged(payload.releases)) => outcome # "ConfirmsDefault"

\* C11 witness: two unflagged releases, dry-run off, the model chooses the
\* second and gives a reason.
C11_Witness ==
  /\ ValidChoice
  /\ Len(payload.releases) = 2
  /\ ~SomeFlagged(payload.releases)
  /\ choice.v = 2
  /\ ~config.dry_run
  /\ outcome = "Override"
  /\ response.reason = GivenReason
  /\ response.selectedReleaseGuid = payload.releases[2].guid

\* C12: with dry-run on, a valid choice of a release other than the default
\* is answered with the reason '[DRY RUN] Would select: <chosen title>', no
\* selectedReleaseGuid and no notification; and with dry-run on no response
\* carries a selectedReleaseGuid.
C12_DryRunSuppressesOverride ==
  /\ (ValidChoice /\ config.dry_run /\ ~ChoosesDefault) =>
       /\ StartsWith(response.reason, <<"[DRY RUN]">>)
       /\ response.reason =
            <<"[DRY RUN]", "Would", "select:", GetTitle(payload.releases[choice.v])>>
       /\ response.selectedReleaseGuid = Absent
       /\ notifications = <<>>
       /\ ntfy_posts = <<>>
  /\ (Done /\ config.dry_run) => response.selectedReleaseGuid = Absent

\* C12 witness: dry-run on with a notifier configured, a default is flagged
\* and the model validly chooses another release.
C12_Witness ==
  /\ ValidChoice
  /\ config.dry_run
  /\ config.ntfy_url
  /\ SomeFlagged(payload.releases)
  /\ ~ChoosesDefault
  /\ outcome = "Override"

FailureNotified == \E i \in DOMAIN notifications : notifications[i].title = "AI Warning"

OverrideNotified == \E i \in DOMAIN notifications : notifications[i].title = "AI Override"

\* C13: a decision emits at most one notification, fixed by the outcome: the
\* failure notification exactly for ModelInvocationFailed, the override
\* notification exactly for Override with dry-run off, and none for
\* NoReleases, SkipTagged, NoPromptForProfile, ConfirmsDefault and dry-run
\* Override.
C13_NotificationFixedByOutcome ==
  IsDecision =>
    /\ Len(notifications) <= 1
    /\ Len(ntfy_posts) <= Len(notifications)
    /\ FailureNotified <=> outcome = "ModelInvocationFailed"
    /\ OverrideNotified <=> (outcome = "Override" /\ ~config.dry_run)
    /\ (\/ outcome \in {"NoReleases", "SkipTagged", "NoPromptForProfile",
                         "ConfirmsDefault"}
        \/ (outcome = "Override" /\ config.dry_run)) =>
         (notifications = <<>> /\ ntfy_posts = <<>>)

\* C13 witness: an override with dry-run off whose single notification is
\* posted.
C13_Witness ==
  /\ IsDecision
  /\ outcome = "Override"
  /\ ~config.dry_run
  /\ config.ntfy_url
  /\ Len(notifications) = 1
  /\ OverrideNotified
  /\ Len(ntfy_posts) = 1

\* The claim's executions without a validated answer: the call failed, or the
\* answered 'choice' is not a JSON integer or is out of range.
NoValidatedAnswer ==
  \/ CallFailed
  \/ /\ AnsweredObject
     /\ \/ AnsweredChoice.t # "int"
        \/ AnsweredChoice.v < 1
        \/ AnsweredChoice.v > Len(payload.releases)

ReachesModelStage ==
  /\ IsDecision
  /\ payload.releases # <<>>
  /\ ~SkipTagInTags(config.skip_tag, tags)
  /\ profile_name # <<>>
  /\ ~NoPromptResolved

\* C15: a webhook invocation sends at most one request to the model endpoint:
\* exactly one when the decision reaches the model stage (releases, no skip
\* tag, a prompt), none otherwise, and none after a failed one.
C15_ExactlyOneModelRequest ==
  /\ Len(llm_requests) <= 1
  /\ Done =>
       /\ ReachesModelStage => Len(llm_requests) = 1
       /\ ~ReachesModelStage => Len(llm_requests) = 0
       /\ CallFailed => Len(llm_requests) = 1

\* C16: whatever reloads are interleaved, a decision resolves its prompt
\* against the complete table that was current when the decision began: the
\* prompt it resolved is the one that table gives for (service, profile),
\* never one of a table published after the decision started.
C16_ResolvesAgainstTableAtStart ==
  (system_prompt # Unresolved) =>
    system_prompt = GetSystemPromptForProfile(table_at_start, service, profile_name)

\* The prompt resolution of the request in flight has run.
Resolved == system_prompt # Unresolved

C17_WitnessNoFallback ==
  /\ Resolved
  /\ service = "radarr"
  /\ profile_name = <<"S", "D">>
  /\ ProfileDefault \in DOMAIN config.service_prompts["radarr"]
  /\ system_prompt = Absent

\* C18: the response of an Override or ModelInvocationFailed decision is the
\* one the handler computed, whether the notification is delivered, fails or
\* is disabled: approved, selectedReleaseGuid and reason do not depend on the
\* notifier, and the webhook does not answer with an error.
C18_DeliveryNeverChangesDecision ==
  (Done /\ notifications # <<>>) =>
    LET d == Decide(config, service, payload.releases, choice, reason)
    IN /\ d.outcome \in {"Override", "ModelInvocationFailed"}
       /\ outcome = d.outcome
       /\ response = d.response
       /\ response.status = 200
       /\ response.approved
       /\ \A n \in BOOLEAN :
            Decide([config EXCEPT !.ntfy_url = n], service, payload.releases,
                   choice, reason).response = response

\* C18 witness: an override whose notification POST fails.
C18_Witness ==
  /\ Done
  /\ outcome = "Override"
  /\ Len(ntfy_posts) = 1
  /\ ~ntfy_posts[1].delivered
  /\ response.selectedReleaseGuid # Absent

\* C18 second witness: a failed model call whose warning POST fails.
C18_WitnessFailure ==
  /\ Done
  /\ outcome = "ModelInvocationFailed"
  /\ Len(ntfy_posts) = 1
  /\ ~ntfy_posts[1].delivered

SixOutcomes ==
  { "NoReleases", "SkipTagged", "NoPromptForProfile", "ModelInvocationFailed",
    "ConfirmsDefault", "Override" }

\* C19: the checks are applied in the order NoReleases, SkipTagged,
\* NoPromptForProfile, ModelInvocationFailed, ConfirmsDefault, Override and
\* the first that matches ends the decision: an empty list ends in NoReleases
\* before any tag lookup, a skip tag ends in SkipTagged before the profile and
\* the prompt are looked at, a missing prompt ends in NoPromptForProfile
\* before any model request, an answer without a valid choice ends in
\* ModelInvocationFailed, and every DownloadDecisionOverride request ends in
\* one of the six outcomes.
C19_ChecksInFixedOrder ==
  IsDecision =>
    /\ outcome \in SixOutcomes
    /\ payload.releases = <<>> =>
         (outcome = "NoReleases" /\ tag_api = NoLookup)
    /\ (payload.releases # <<>> /\ CarriesSkipTag) =>
         (outcome = "SkipTagged" /\ profile_api = NoProfileLookup /\ ~Resolved)
    /\ outcome = "SkipTagged" => payload.releases # <<>>
    /\ system_prompt = Absent =>
         (outcome = "NoPromptForProfile" /\ llm_requests = <<>>)
    /\ outcome \in {"NoPromptForProfile", "ModelInvocationFailed",
                    "ConfirmsDefault", "Override"} =>
         (payload.releases # <<>> /\ ~SkipTagInTags(config.skip_tag, tags) /\ Resolved)
    /\ outcome \in {"ModelInvocationFailed", "ConfirmsDefault", "Override"} =>
         (system_prompt # Absent /\ Len(llm_requests) = 1)
    /\ outcome \in {"ConfirmsDefault", "Override"} => ValidChoice
    /\ outcome = "Override" => ~ChoosesDefault

\* C20: the number under which the formatter renders a release is the 1-based
\* position by which the handler resolves the model's answer: the request
\* body has one item per release, and for every k in 1..n the one item
\* numbered k renders the release that the handler selects for choice = k,
\* which is the k-th release of the payload.
C20_RenderedNumberIsSelectionIndex ==
  (llm_requests # <<>>) =>
    LET body == llm_requests[1].body
        rels == payload.releases
    IN /\ Len(body) = Len(rels)
       /\ \A k \in 1..Len(rels) :
            LET items == {i \in DOMAIN body : body[i].num = k}
                sel == SelectedRelease(rels, [t |-> "int", v |-> k])
            IN /\ Cardinality(items) = 1
               /\ \A i \in items :
                    /\ body[i].title = GetTitle(sel)
                    /\ body[i].preferred = sel.isSelected
               /\ sel = rels[k]
       /\ ValidChoice => read_index = <<choice.v - 1>>

\* C20 witness: two releases that render differently, the model answers 2 and
\* the handler returns the guid of the release rendered as item 2.
C20_Witness ==
  /\ ValidChoice
  /\ llm_requests # <<>>
  /\ Len(payload.releases) = 2
  /\ GetTitle(payload.releases[1]) # GetTitle(payload.releases[2])
  /\ choice.v = 2
  /\ llm_requests[1].body[2].num = 2
  /\ llm_requests[1].body[2].title = GetTitle(payload.releases[2])
  /\ response.selectedReleaseGuid = payload.releases[2].guid

\* The handler came back from ask_ai_for_selection and took one of the
\* returns of routes.py lines 165-228.
Decided == Done /\ Resolved /\ outcome # "UnhandledError"

\* The configuration that differs from the current one in DRY_RUN only.
OtherDryRun == [config EXCEPT !.dry_run = ~config.dry_run]

\* C21: two executions that differ in the dry-run flag only (same payload,
\* lookups, prompt table and model answer) take the same branch and make the
\* same model call; their responses are equal in every outcome but Override,
\* where the dry run has no selectedReleaseGuid and no notification and the
\* reason '[DRY RUN] Would select: <title>', and the other run has the
\* chosen guid, the model's reason and the override notification.
C21_DryRunOnlyChangesOverride ==
  Done =>
    /\ ServiceConfigured(OtherDryRun, service) = ServiceConfigured(config, service)
    /\ SkipTagInTags(OtherDryRun.skip_tag, tags) = SkipTagInTags(config.skip_tag, tags)
    /\ Resolved =>
         GetSystemPromptForProfile(OtherDryRun.service_prompts, service, profile_name)
           = system_prompt
    /\ ~Decided =>
         /\ outcome \in {"NotConfigured", "EmptyPayload", "IgnoredEvent",
                         "NoReleases", "SkipTagged", "UnhandledError"}
         /\ response.selectedReleaseGuid = Absent
         /\ ~StartsWith(response.reason, <<"[DRY RUN]">>)
         /\ notifications = <<>>
    /\ Decided =>
         LET mine == Decide(config, service, payload.releases, choice, reason)
             theirs == Decide(OtherDryRun, service, payload.releases, choice, reason)
             dry == IF config.dry_run THEN mine ELSE theirs
             live == IF config.dry_run THEN theirs ELSE mine
             selected == payload.releases[choice.v]
         IN /\ outcome = mine.outcome
            /\ response = mine.response
            /\ notifications = mine.intents
            /\ theirs.outcome = mine.outcome
            /\ theirs.read = mine.read
            /\ outcome # "Override" =>
                 (theirs.response = mine.response /\ theirs.intents = mine.intents)
            /\ outcome = "Override" =>
                 /\ dry.response =
                      Approve(<<"[DRY RUN]", "Would", "select:", GetTitle(selected)>>)
                 /\ dry.intents = <<>>
                 /\ live.response = ApproveWith(selected.guid, reason)
                 /\ Len(live.intents) = 1
                 /\ live.intents[1].title = "AI Override"

\* C21 witness: a dry run that ends in Override, whose twin without dry-run
\* returns the chosen guid.
C21_Witness ==
  /\ Decided
  /\ config.dry_run
  /\ outcome = "Override"
  /\ StartsWith(response.reason, <<"[DRY RUN]">>)
  /\ Decide(OtherDryRun, service, payload.releases, choice, reason)
       .response.selectedReleaseGuid = payload.releases[choice.v].guid

\* C21 second witness: a dry run that ends in ModelInvocationFailed and
\* notifies, as its twin does.
C21_WitnessFailure ==
  /\ Decided
  /\ config.dry_run
  /\ outcome = "ModelInvocationFailed"
  /\ Len(notifications) = 1

\* The name of the media item's quality profile could not be determined: the
\* payload has no media id, the lookup failed, or no profile has the item's
\* profile id.
ProfileUndetermined ==
  /\ profile_name # <<>>
  /\ \/ ~Truthy(payload.media)
     \/ profile_api.kind \in {"error", "notfound"}

\* C22: a model call uses the prompt stored under the media item's own
\* quality-profile name; when that name cannot be determined (no media id,
\* failed lookup, profile id not found) the request ends in
\* NoPromptForProfile without a model call, and no prompt stored under
\* another name such as 'default' or 'unknown' is used.
C22_OnlyOwnProfilePromptIsUsed ==
  /\ (Done /\ ProfileUndetermined) =>
       /\ outcome = "NoPromptForProfile"
       /\ system_prompt = Absent
       /\ llm_requests = <<>>
  /\ llm_requests # <<>> =>
       /\ profile_api.kind = "ok"
       /\ llm_requests[1].system =
            GetSystemPromptForProfile(config.service_prompts, service, profile_api.name)

====
